---------------------------- MODULE Spec2Model ----------------------------
(***************************************************************************)
(* Model of the planetary editor core:                                     *)
(*   - the icosphere mesh builder (game/src/structures/ico.rs): base(),    *)
(*     subdivide(), face(), vertex_data();                                 *)
(*   - the generation-tracked GPU item buffer                              *)
(*     (engine/src/graphics/common.rs): ItemBuffer::new/update/id.         *)
(*                                                                         *)
(* Geometry (f32 positions, normals), texture coordinates and the random   *)
(* tex_index take no part in index allocation or adjacency and are left    *)
(* out of the face record; a face is its index, its three corner indices   *)
(* and its three sibling slots.  Option<NonZeroU32> is modelled by its     *)
(* niche: None is 0.  Option<&IcoFace> is a sequence of length 0 or 1.     *)
(***************************************************************************)
EXTENDS Integers, Sequences, FiniteSets, TLC

(* ------------------------------ bounds -------------------------------- *)
\* largest subdivision depth built
MaxDepth == 2
\* Ico::face is probed with the indices 0..MaxProbe and the two boundary
\* indices face_count and face_count + 1
MaxProbe == 31
\* largest data length handed to ItemBuffer::new and ItemBuffer::update
MaxLen == 3
\* largest number of ItemBuffer::update calls on one buffer
MaxUpdates == 4
\* largest number of ItemBuffer::update calls on the data of a renderer
MaxDataUpdates == 2
\* largest number of bundles built by one renderer
MaxBuilds == 3
\* largest number of events the event loop pushes on the queue
MaxEvents == 3
\* largest number of frames the event loop fails to present
MaxFrames == 3

(* --------------------------- program constants ------------------------ *)
None == 0
\* the 256 of Texture::make_buffer: the row alignment of a buffer copy, bytes
COPY_ALIGN == 256
\* std::mem::size_of::<u32>(), the size of one R32Uint texel
U32_SIZE == 4

VARIABLES
    faces,      \* Ico.faces : Vec<IcoFace>
    sub,        \* Ico.sub
    ret,        \* the value returned by the last call on the mesh
    num_items,  \* ItemBufferInner.num_items
    generation, \* ItemBufferInner.generation
    buffer,     \* ItemBufferInner.buffer: the wgpu::Buffer held, as the
                \* identity of the allocation and the items it was created for
    calls,      \* data lengths handed to ItemBuffer::new and then to each
                \* ItemBuffer::update, oldest first
    ico_screen, \* Editor.ico_screen : Renderer<IcoRenderer>
    ico_select, \* Editor.ico_select : Renderer<IcoRenderer>
    ren_ret,    \* the last call made on a renderer and what it did
    state,      \* Editor.state : EditorState (size and samples)
    size,       \* Editor.size = [sc_desc.width, sc_desc.height]
    mouse_raw,  \* Editor.mouse_raw
    selected,   \* Editor.selected
    ico_uniform,    \* Editor.ico_uniform (selected, s1, s2, s3)
    select_buffer,  \* Editor.select_buffer and the map state and contents
                    \* of the wgpu::Buffer it holds
    encoder,    \* the commands Editor::render recorded and not yet submitted
    pc,         \* where the update thread and the main thread are
    ed_ret,     \* the last call made on the editor and what it observed
    queue,      \* the VecDeque<RunnerEvent> shared by the event loop and
                \* the input thread
    queue_lock, \* the thread holding the Mutex around the queue
    runner_lock,    \* the thread holding the Mutex around the thread runner
    event,      \* the Option the input thread popped and has not yet applied
    input_pc,   \* where the input thread is
    loop_pc,    \* where the event loop is
    pushed,     \* every event pushed on the queue so far, oldest first
    applied,    \* every ThreadRunner::input call so far, oldest first: its
                \* event and the holder of the runner lock during the call
    target_lock,    \* the thread holding the Mutex around RenderState.target
    target,     \* RenderState.target : RenderTarget (sc_desc size and the
                \* swap chain built for it)
    textures,   \* Editor.msaa, depth_texture, sampled_depth_texture, select
    control_flow,   \* the ControlFlow the event loop closure leaves
    frames,     \* the RedrawRequested events handled so far, oldest first:
                \* what render returned and what the handler did
    program     \* which binary runs: the engine's run() or the root main()

icoVars == <<faces, sub, ret>>
bufVars == <<num_items, generation, buffer, calls>>
renVars == <<ico_screen, ico_select, ren_ret>>
edVars == <<state, size, mouse_raw, selected, ico_uniform, select_buffer,
            encoder, pc, ed_ret>>
evtVars == <<queue, queue_lock, runner_lock, event, input_pc, loop_pc,
             pushed, applied, target_lock>>
gfxVars == <<target, textures>>
loopVars == <<control_flow, frames, program>>
vars == <<faces, sub, ret, num_items, generation, buffer, calls,
          ico_screen, ico_select, ren_ret,
          state, size, mouse_raw, selected, ico_uniform, select_buffer,
          encoder, pc, ed_ret,
          queue, queue_lock, runner_lock, event, input_pc, loop_pc,
          pushed, applied, target_lock,
          target, textures, control_flow, frames, program>>

(* ------------------------------ helpers ------------------------------- *)
Max(a, b) == IF a >= b THEN a ELSE b
Min(a, b) == IF a <= b THEN a ELSE b

\* BTreeMap::get(..).copied(): the stored value or None
MapGet(m, k) == IF k \in DOMAIN m THEN m[k] ELSE None

\* BTreeMap::insert: a later insert of the same key replaces the value
MapInsert(m, k, v) == (k :> v) @@ m

\* insert the entries i.. of a sequence of <<key, value>> pairs in order:
\* every key of the pairs holds the value of its last pair, every other
\* key of m keeps its value
MapInsertAll(m, kvs, i) ==
    LET keys == {kvs[n][1] : n \in i..Len(kvs)}
        last(k) == CHOOSE n \in i..Len(kvs) :
                      /\ kvs[n][1] = k
                      /\ \A n2 \in i..Len(kvs) : kvs[n2][1] = k => n2 <= n
    IN  [k \in keys |-> kvs[last(k)][2]] @@ m

(* ----------------------------- Ico::base ------------------------------ *)
base_faces ==
    << <<0, 11, 5>>, <<0, 5, 1>>,  <<0, 1, 7>>,   <<0, 7, 10>>, <<0, 10, 11>>,
       <<1, 5, 9>>,  <<5, 11, 4>>, <<11, 10, 2>>, <<10, 7, 6>>, <<7, 1, 8>>,
       <<3, 9, 4>>,  <<3, 4, 2>>,  <<3, 2, 6>>,   <<3, 6, 8>>,  <<3, 8, 9>>,
       <<4, 9, 5>>,  <<2, 4, 11>>, <<6, 2, 10>>,  <<8, 6, 7>>,  <<9, 8, 1>> >>

\* variant of ResolveSiblings that looks each edge up in its own direction
ResolveSiblings_Forward(fs, edges) ==
    [p \in 1..Len(fs) |->
        LET i0 == fs[p].indices[1]
            i1 == fs[p].indices[2]
            i2 == fs[p].indices[3]
        IN  [fs[p] EXCEPT !.siblings =
                << MapGet(edges, <<i0, i1>>),
                   MapGet(edges, <<i1, i2>>),
                   MapGet(edges, <<i2, i0>>) >>] ]

\* second loop of base() and of subdivide(): each slot is the owner of the
\* reversed directed edge
ResolveSiblings(fs, edges) ==
    [p \in 1..Len(fs) |->
        LET i0 == fs[p].indices[1]
            i1 == fs[p].indices[2]
            i2 == fs[p].indices[3]
        IN  [fs[p] EXCEPT !.siblings =
                << MapGet(edges, <<i1, i0>>),
                   MapGet(edges, <<i2, i1>>),
                   MapGet(edges, <<i0, i2>>) >>] ]

\* the directed edges base() inserts for the face k
BaseFaceEdges(k) ==
    << << << base_faces[k][1], base_faces[k][2] >>, k >>,
       << << base_faces[k][2], base_faces[k][3] >>, k >>,
       << << base_faces[k][3], base_faces[k][1] >>, k >> >>

\* first loop of base(): the edge map after the faces 1..k have been pushed
BaseEdges(k) ==
    MapInsertAll(<< >>,
        [n \in 1..(3 * k) |-> BaseFaceEdges(((n - 1) \div 3) + 1)[((n - 1) % 3) + 1]], 1)

BasePushed ==
    [k \in 1..Len(base_faces) |->
        [index |-> k, indices |-> base_faces[k], siblings |-> <<None, None, None>>]]

BaseMesh == ResolveSiblings(BasePushed, BaseEdges(Len(base_faces)))

(* --------------------------- Ico::subdivide --------------------------- *)
Pow2(n) == 2 ^ n

\* variant of IndexCountStart that starts every subdivision at 11
IndexCountStart_Base(s) == 11

\* index_count before the loop (u16; 12 * 2^s stays below 2^16 for every
\* s <= 12, far above MaxDepth)
IndexCountStart(s) == (12 * Pow2(s)) - 1

\* variant of EntryOrInsert whose key is the directed pair, not (max, min)
EntryOrInsert_Directed(acc, a, b) ==
    LET key == <<a, b>>
    IN  IF key \in DOMAIN acc.indices
        THEN [acc EXCEPT !.j = acc.indices[key]]
        ELSE [acc EXCEPT !.index_count = acc.index_count + 1,
                         !.indices = MapInsert(acc.indices, key, acc.index_count + 1),
                         !.j = acc.index_count + 1]

\* indices.entry(key).or_insert_with(|| { index_count += 1; index_count })
\* on the accumulator; the looked-up value is put in field j
EntryOrInsert(acc, a, b) ==
    LET key == <<Max(a, b), Min(a, b)>>
    IN  IF key \in DOMAIN acc.indices
        THEN [acc EXCEPT !.j = acc.indices[key]]
        ELSE [acc EXCEPT !.index_count = acc.index_count + 1,
                         !.indices = MapInsert(acc.indices, key, acc.index_count + 1),
                         !.j = acc.index_count + 1]

\* variant of ChildIndex that numbers the children of n from n * 4 - 2
ChildIndex_Shifted(n, k) == n * 4 - k + 1

\* the index of a child of parent n: n * 4 - 3, n * 4 - 2, n * 4 - 1 and
\* n * 4 for the three corner children and the centre child
ChildIndex(n, k) == n * 4 - k

\* variant of ChildEdges in which the centre child is entered under its
\* edges reversed
ChildEdges_CentreReversed(n, i, j) ==
    << << <<j[3], i[1]>>, ChildIndex(n, 3) >>, << <<i[1], j[1]>>, ChildIndex(n, 3) >>, << <<j[1], j[3]>>, ChildIndex(n, 3) >>,
       << <<j[2], i[3]>>, ChildIndex(n, 2) >>, << <<i[3], j[3]>>, ChildIndex(n, 2) >>, << <<j[3], j[2]>>, ChildIndex(n, 2) >>,
       << <<j[1], i[2]>>, ChildIndex(n, 1) >>, << <<i[2], j[2]>>, ChildIndex(n, 1) >>, << <<j[2], j[1]>>, ChildIndex(n, 1) >>,
       << <<j[2], j[1]>>, ChildIndex(n, 0) >>, << <<j[3], j[2]>>, ChildIndex(n, 0) >>, << <<j[1], j[3]>>, ChildIndex(n, 0) >> >>

\* the twelve edges.insert calls for the children of parent n with the
\* corners i = (i0, i1, i2) and the midpoints j = (j0, j1, j2), in order
ChildEdges(n, i, j) ==
    << << <<j[3], i[1]>>, ChildIndex(n, 3) >>, << <<i[1], j[1]>>, ChildIndex(n, 3) >>, << <<j[1], j[3]>>, ChildIndex(n, 3) >>,
       << <<j[2], i[3]>>, ChildIndex(n, 2) >>, << <<i[3], j[3]>>, ChildIndex(n, 2) >>, << <<j[3], j[2]>>, ChildIndex(n, 2) >>,
       << <<j[1], i[2]>>, ChildIndex(n, 1) >>, << <<i[2], j[2]>>, ChildIndex(n, 1) >>, << <<j[2], j[1]>>, ChildIndex(n, 1) >>,
       << <<j[1], j[2]>>, ChildIndex(n, 0) >>, << <<j[2], j[3]>>, ChildIndex(n, 0) >>, << <<j[3], j[1]>>, ChildIndex(n, 0) >> >>

\* body of the drain loop for one parent face f
SubdivideFace(acc, f) ==
    LET n  == f.index
        i0 == f.indices[1]
        i1 == f.indices[2]
        i2 == f.indices[3]
        a0 == EntryOrInsert(acc, i0, i1)
        a1 == EntryOrInsert(a0, i1, i2)
        a2 == EntryOrInsert(a1, i2, i0)
        j0 == a0.j
        j1 == a1.j
        j2 == a2.j
        child(idx, c) == [index |-> idx, indices |-> c, siblings |-> <<None, None, None>>]
    IN  [index_count |-> a2.index_count,
         indices     |-> a2.indices,
         j           |-> a2.j,
         edges       |-> MapInsertAll(acc.edges, ChildEdges(n, <<i0, i1, i2>>, <<j0, j1, j2>>), 1),
         vertices    |-> acc.vertices \o
             << child(ChildIndex(n, 3), <<j2, i0, j0>>),
                child(ChildIndex(n, 2), <<j1, i2, j2>>),
                child(ChildIndex(n, 1), <<j0, i1, j1>>),
                child(ChildIndex(n, 0), <<j0, j1, j2>>) >>]

\* the drain loop over the faces lo..hi, in list order: the faces lo..mid
\* first, then mid+1..hi on the accumulator they leave (the test on `left`
\* only makes the evaluator finish the first half before the second starts)
RECURSIVE SubdivideLoop(_, _, _, _)
SubdivideLoop(acc, fs, lo, hi) ==
    IF lo > hi THEN acc
    ELSE IF lo = hi THEN SubdivideFace(acc, fs[lo])
    ELSE LET mid  == (lo + hi) \div 2
             left == SubdivideLoop(acc, fs, lo, mid)
         IN  IF left.index_count >= 0
             THEN SubdivideLoop(left, fs, mid + 1, hi)
             ELSE left

\* variant of SubdivideDrain whose loop stops one face short
SubdivideDrain_SkipLast(fs, s) ==
    SubdivideLoop([index_count |-> IndexCountStart(s), indices |-> << >>, j |-> 0,
                   edges |-> << >>, vertices |-> << >>], fs, 1, Len(fs) - 1)

\* the state of the locals when the drain loop ends
SubdivideDrain(fs, s) ==
    SubdivideLoop([index_count |-> IndexCountStart(s), indices |-> << >>, j |-> 0,
                   edges |-> << >>, vertices |-> << >>], fs, 1, Len(fs))

SubdivideMesh(fs, s) ==
    LET acc == SubdivideDrain(fs, s)
    IN  ResolveSiblings(acc.vertices, acc.edges)

(* ------------------------------ Ico::face ----------------------------- *)
\* variant of face that uses the index itself as the list position
face_NoOffset(fs, index) ==
    IF index = 0 THEN << >>
    ELSE IF index < Len(fs) THEN << fs[index + 1] >>
    ELSE << >>

\* self.faces.get(place) with place = index - 1, behind the index == 0 test
face(fs, index) ==
    IF index = 0 THEN << >>
    ELSE IF index - 1 < Len(fs) THEN << fs[index] >>
    ELSE << >>

\* the debug_assert!(face.index.get() == index) fails
FaceAssertFails(fs, index) ==
    /\ face(fs, index) # << >>
    /\ face(fs, index)[1].index # index

(* --------------------------- Ico::vertex_data ------------------------- *)
\* the three IcoVertex of one face (the inner map over f.vertices); a
\* position is named by the corner index whose point it is
FaceVertices(f) ==
    [k \in 1..3 |-> [index |-> f.index, position |-> f.indices[k]]]

\* flat_map over self.faces[lo..hi] in order
RECURSIVE FlatMapFaces(_, _, _)
FlatMapFaces(fs, lo, hi) ==
    IF lo > hi THEN << >>
    ELSE IF lo = hi THEN FaceVertices(fs[lo])
    ELSE FlatMapFaces(fs, lo, (lo + hi) \div 2) \o FlatMapFaces(fs, ((lo + hi) \div 2) + 1, hi)

\* variant of vertex_data that leaves out the first face
vertex_data_SkipFirst(fs) == FlatMapFaces(fs, 2, Len(fs))

vertex_data(fs) == FlatMapFaces(fs, 1, Len(fs))

(* ----------------------------- ItemBuffer ----------------------------- *)
\* variant of NeedsRealloc without the test for growth
NeedsRealloc_ShrinkOnly(len, n) == len < n \div 2

\* the test that sends update() through create_buffer_size
NeedsRealloc(len, n) == len > n \/ len < n \div 2

\* helper::create_buffer_size: a new buffer object for `items` items
create_buffer_size(old, items) == [id |-> old.id + 1, size |-> items]

\* ItemBuffer::new(buffer, num_items, ..) as called by helper::create_buffer
\* and Texture::make_buffer: the buffer handed in was created for num_items
ItemBuffer_new(n) ==
    [num_items |-> n, generation |-> 0, buffer |-> [id |-> 0, size |-> n],
     calls |-> << n >>]

\* ItemBuffer::update(device, queue, data) with data.len() = len, on the
\* shared ItemBufferInner b
ItemBuffer_update(b, len) ==
    [num_items |-> len,
     generation |-> IF NeedsRealloc(len, b.num_items)
                    THEN b.generation + 1 ELSE b.generation,
     buffer |-> IF NeedsRealloc(len, b.num_items)
                THEN create_buffer_size(b.buffer, len) ELSE b.buffer,
     calls |-> Append(b.calls, len)]

\* the ItemBufferInner behind every clone of the vertex buffer
ItemBufferInner ==
    [num_items |-> num_items, generation |-> generation, buffer |-> buffer,
     calls |-> calls]

\* the shared ItemBufferInner is b / becomes b
InnerIs(b) ==
    /\ num_items = b.num_items
    /\ generation = b.generation
    /\ buffer = b.buffer
    /\ calls = b.calls

InnerBecomes(b) ==
    /\ num_items' = b.num_items
    /\ generation' = b.generation
    /\ buffer' = b.buffer
    /\ calls' = b.calls

(* ------------------------------ Renderer ------------------------------ *)
\* Pipeline::build_pipeline: a new pipeline object for the format and the
\* sample count; old is the pipeline object it replaces
build_pipeline(old, format, samples) ==
    [id |-> old.id + 1, format |-> format, samples |-> samples]

\* IcoRenderer::build_bundle: a new bundle recorded with the pipeline, the
\* vertex buffer held by the data at this moment and the draw range
\* 0..num_items; old is the bundle object it replaces
build_bundle(old, pipeline, format, samples, data) ==
    [id |-> old.id + 1, pipeline |-> pipeline.id, format |-> format,
     samples |-> samples, vb |-> data.buffer.id, draw |-> data.num_items]

\* Renderer::new(settings, device, format, samples, data)
Renderer_new(format, samples, data) ==
    LET pipeline == build_pipeline([id |-> 0], format, samples)
    IN  [pipeline |-> pipeline,
         bundle |-> build_bundle([id |-> 0], pipeline, format, samples, data),
         pipeline_valid |-> TRUE,
         bundle_valid |-> TRUE,
         format |-> format,
         id |-> 0]

\* variant of Renderer::update in which a rebuilt pipeline leaves the bundle
\* as it is
Renderer_update_KeepBundle(r, samples, data) ==
    LET r1 == IF r.id # data.generation
              THEN [r EXCEPT !.id = data.generation, !.bundle_valid = FALSE]
              ELSE r
        r2 == IF ~r1.pipeline_valid
              THEN [r1 EXCEPT !.pipeline = build_pipeline(r1.pipeline, r1.format, samples),
                              !.pipeline_valid = TRUE]
              ELSE r1
    IN  IF ~r2.bundle_valid
        THEN [r2 EXCEPT !.bundle = build_bundle(r2.bundle, r2.pipeline, r2.format, samples, data),
                        !.bundle_valid = TRUE]
        ELSE r2

\* Renderer::update(device, samples); data is the ItemBufferInner behind
\* self.data
Renderer_update(r, samples, data) ==
    LET r1 == IF r.id # data.generation
              THEN [r EXCEPT !.id = data.generation, !.bundle_valid = FALSE]
              ELSE r
        r2 == IF ~r1.pipeline_valid
              THEN [r1 EXCEPT !.pipeline = build_pipeline(r1.pipeline, r1.format, samples),
                              !.pipeline_valid = TRUE,
                              !.bundle_valid = FALSE]
              ELSE r1
    IN  IF ~r2.bundle_valid
        THEN [r2 EXCEPT !.bundle = build_bundle(r2.bundle, r2.pipeline, r2.format, samples, data),
                        !.bundle_valid = TRUE]
        ELSE r2

\* Renderer::invalid(invalid)
Renderer_invalid(r, invalid) ==
    IF invalid = "Pipeline"
    THEN [r EXCEPT !.pipeline_valid = FALSE]
    ELSE [r EXCEPT !.bundle_valid = FALSE]

\* the sample counts offered by the editor's list box
Samples == {1, 2, 4, 8}

(* ------------------------------ UiValue ------------------------------- *)
UiValue_new(value) == [old |-> value, new |-> value]

\* variant of on_change that reports a change only when the value grew
on_change_Grew(v) ==
    IF v.new > v.old
    THEN [changed |-> TRUE, value |-> v.new, after |-> [v EXCEPT !.old = v.new]]
    ELSE [changed |-> FALSE, value |-> v.new, after |-> v]

\* UiValue::on_change: Some(&new) and old := new when new != old, else None
on_change(v) ==
    IF v.new # v.old
    THEN [changed |-> TRUE, value |-> v.new, after |-> [v EXCEPT !.old = v.new]]
    ELSE [changed |-> FALSE, value |-> v.new, after |-> v]

(* ------------------------------ Ico::divs ----------------------------- *)
RECURSIVE divs(_)
divs(d) == IF d = 0 THEN BaseMesh ELSE SubdivideMesh(divs(d - 1), d - 1)

(* ----------------------- the selection read-back ---------------------- *)
\* the row width, in texels, Texture::make_buffer sizes the buffer with
make_buffer_width(w) ==
    LET align == COPY_ALIGN \div U32_SIZE
        offset == w % align
    IN  IF offset = 0 THEN w ELSE (w \div align) * align + align

\* Texture::make_buffer for a texture of the size sz; a new buffer is not
\* mapped and its memory holds whatever the allocation held (fill)
make_buffer(sz, fill) ==
    LET items == make_buffer_width(sz[1]) * sz[2]
    IN  [num_items |-> items, mapped |-> FALSE, words |-> [i \in 1..items |-> fill]]

\* u32::to_le_bytes / u32::from_le_bytes
to_le_bytes(v) ==
    << v % 256, (v \div 256) % 256, (v \div 65536) % 256, (v \div 16777216) % 256 >>

from_le_bytes(bs) == bs[1] + 256 * bs[2] + 65536 * bs[3] + 16777216 * bs[4]

\* the bytes lo..hi-1 of a buffer of u32 words, as get_mapped_range gives
\* them for buffer.slice(lo..hi)
get_mapped_range(words, lo, hi) ==
    [i \in 1..(hi - lo) |->
        LET b == lo + i - 1 IN to_le_bytes(words[(b \div U32_SIZE) + 1])[(b % U32_SIZE) + 1]]

\* ItemBuffer<u32>::mapped_read(device, offset): the value it returns
mapped_read(words, offset) ==
    LET bits == (offset % 2) * 4
        off == (offset \div 2) * 4
        data == get_mapped_range(words, off, off + 8)
    IN  from_le_bytes(SubSeq(data, bits + 1, bits + 4))

\* the index Editor::update hands to mapped_read
pick_index(sz, mouse) == Min((sz[1] * mouse[2]) + mouse[1], sz[1] * sz[2] - 1)

\* the copy Editor::render records: TextureDataLayout and Extent3d
copy_layout(sz) ==
    [bytes_per_row |-> 4 * sz[1], rows_per_image |-> sz[2],
     width |-> sz[1], height |-> sz[2]]

\* the face indices the select pass can leave in the select texture: the
\* texel at (x, y) of picture k
PickValues == << 0, 5, 300, 21 >>
Texel(k, x, y) == PickValues[((x + 2 * y + k) % Len(PickValues)) + 1]

\* copy_texture_to_buffer executed: texel (x, y) goes to byte offset
\* y * bytes_per_row + 4 * x of the buffer
copy_texture_to_buffer(words, k, copy) ==
    [i \in 1..Len(words) |->
        LET stride == copy.bytes_per_row \div U32_SIZE
            y == (i - 1) \div stride
            x == (i - 1) % stride
        IN  IF x < copy.width /\ y < copy.height THEN Texel(k, x, y) ELSE words[i]]

\* whether the copy is accepted: a bytes_per_row that is a multiple of the
\* copy alignment always is, any other may be refused by the device
CopyOutcomes(copy) ==
    IF copy.bytes_per_row % COPY_ALIGN = 0 THEN {TRUE} ELSE {TRUE, FALSE}

\* variant of select_siblings that repeats the second sibling in s3
select_siblings_Repeat(fs, new) ==
    LET f == face(fs, new)
    IN  IF f # << >>
        THEN << f[1].siblings[1], f[1].siblings[2], f[1].siblings[2] >>
        ELSE << 0, 0, 0 >>

\* the s1, s2, s3 Editor::update writes for a newly decoded face index
select_siblings(fs, new) ==
    LET f == face(fs, new)
    IN  IF f # << >>
        THEN << f[1].siblings[1], f[1].siblings[2], f[1].siblings[3] >>
        ELSE << 0, 0, 0 >>

(* ------------------------------ actions ------------------------------- *)
Ret(op, arg, val, panicked) == [op |-> op, arg |-> arg, val |-> val, panicked |-> panicked]

\* what a call on a renderer is remembered by: the call, the generation of
\* the data when it returned, and whether an invalidation was pending when
\* it was made
RenRet(op, gen, pending) == [op |-> op, generation |-> gen, pending |-> pending]

\* Ico::base()
InitMesh ==
    /\ faces = BaseMesh
    /\ sub = 0
    /\ ret = Ret("base", 0, << >>, FALSE)

ItemBufferNew(n) == InnerIs(ItemBuffer_new(n))

\* the two renderers of the editor, built over the vertex buffer as
\* Editor::new builds them
InitRenderers ==
    /\ ico_screen = Renderer_new("Bgra8UnormSrgb", 1, ItemBufferInner)
    /\ ico_select = Renderer_new("R32Uint", 1, ItemBufferInner)
    /\ ren_ret = RenRet("new", generation, FALSE)

\* what a call on the editor is remembered by: the call, whether the
\* samples and the size setting had changed, the index handed to
\* mapped_read, the value decoded, and whether the call panicked
EdRet(op, samples_changed, size_changed, index, new, panicked) ==
    [op |-> op, samples_changed |-> samples_changed, size_changed |-> size_changed,
     index |-> index, new |-> new, panicked |-> panicked]

\* the sample count the editor hands to ico_select.update: the one of the
\* screen renderer
SelectSamples_Follow == state.samples.new

\* the sample count the editor hands to ico_select.update
SelectSamples == 1

\* the window sizes and the memory a new read-back buffer may hold
Sizes == {<<64, 2>>, <<65, 1>>}
Fills == {0, 21}
\* the cursor positions CursorMoved reports
MousePositions == {<<0, 0>>, <<2, 0>>, <<1, 1>>}
\* the pictures the select pass may draw
Pictures == 0..3
\* the depths and sample counts picked in the editor's window
Depths == {0, 1}
EdSamples == {1, 4}

\* Texture::create_texture, as far as the size and the sample count of the
\* texture created
create_texture(sz, samples) == [size |-> sz, samples |-> samples]

\* variant of with_size that hands back the texture it was called on
with_size_Same(t, sz) == t

\* Texture::with_size(device, size)
with_size(t, sz) == create_texture(sz, t.samples)

\* Texture::with_samples(device, samples)
with_samples(t, samples) == create_texture(t.size, samples)

\* Editor::resize as a function of the descriptor: the textures it builds
resize_textures(tex, sz) ==
    [msaa |-> with_size(tex.msaa, sz),
     depth_texture |-> with_size(tex.depth_texture, sz),
     sampled_depth_texture |-> with_size(tex.sampled_depth_texture, sz),
     select |-> with_size(tex.select, sz)]

\* RenderTarget::new(device, surface, sc_desc): the descriptor kept and the
\* size the swap chain was created for
RenderTarget_new(sz) == [sc_desc |-> sz, swap_chain |-> sz]

\* RenderTarget::resize(device, surface, size): sc_desc is set, then
\* rebuild creates the swap chain from it
RenderTarget_resize(t, sz) == [sc_desc |-> sz, swap_chain |-> sz]

\* the fields Editor::new sets besides the mesh, the vertex buffer and the
\* renderers, for a window of the size sz, and the RenderTarget that
\* RenderState::new built for that window
InitEditor(sz, fill) ==
    /\ target = RenderTarget_new(sz)
    /\ textures = [depth_texture |-> create_texture(sz, 1),
                   sampled_depth_texture |-> create_texture(sz, 1),
                   msaa |-> create_texture(sz, 1),
                   select |-> create_texture(sz, 1)]
    /\ state = [size |-> UiValue_new(1), samples |-> UiValue_new(1)]
    /\ size = sz
    /\ mouse_raw = <<0, 0>>
    /\ selected = 0
    /\ ico_uniform = [selected |-> 0, s1 |-> 0, s2 |-> 0, s3 |-> 0]
    /\ select_buffer = make_buffer(sz, fill)
    /\ encoder = << >>
    /\ pc = [update |-> "idle", main |-> "idle"]
    /\ ed_ret = EdRet("new", FALSE, FALSE, 0, 0, FALSE)

\* Editor::new(window, device, queue, sc_desc)
EditorNew(sz, fill) ==
    /\ faces = divs(1)
    /\ sub = 1
    /\ ret = Ret("subdivide", 0, << >>, FALSE)
    /\ InnerIs(ItemBuffer_update(ItemBuffer_new(1), Len(vertex_data(divs(1)))))
    /\ InitRenderers
    /\ InitEditor(sz, fill)

\* the event loop before its first RedrawRequested, in the program p
InitLoop(p) ==
    /\ control_flow = "Poll"
    /\ frames = << >>
    /\ program = p

\* the empty queue and the free locks when the input thread and the update
\* thread have been spawned
InitQueue ==
    /\ target_lock = "none"
    /\ queue = << >>
    /\ queue_lock = "none"
    /\ runner_lock = "none"
    /\ event = << >>
    /\ input_pc = "start"
    /\ loop_pc = "idle"
    /\ pushed = << >>
    /\ applied = << >>

\* run(): the state in which the event loop of the engine starts
InitEvents ==
    /\ InitLoop("engine")
    /\ InitQueue

\* the editor's state after Ico::base() and IcoBuffer::build (a one-item
\* buffer from create_buffer(device, None, ..))
Init ==
    /\ InitMesh
    /\ ItemBufferNew(1)
    /\ InitRenderers
    /\ InitEditor(<<64, 2>>, 0)
    /\ InitEvents

\* a buffer built by create_buffer(device, Some(data), ..) for any data
InitBuf ==
    /\ InitMesh
    /\ \E n \in 0..MaxLen : ItemBufferNew(n)
    /\ InitRenderers
    /\ InitEditor(<<64, 2>>, 0)
    /\ InitEvents

\* a renderer built over a buffer that was created for any data and was
\* either left alone or updated once before the renderer was built (the
\* order of Editor::new)
InitRen ==
    /\ InitMesh
    /\ \E n \in 0..MaxLen :
          \/ ItemBufferNew(n)
          \/ \E len \in 0..MaxLen : InnerIs(ItemBuffer_update(ItemBuffer_new(n), len))
    /\ InitRenderers
    /\ InitEditor(<<64, 2>>, 0)
    /\ InitEvents

Base ==
    /\ faces' = BaseMesh
    /\ sub' = 0
    /\ ret' = Ret("base", 0, << >>, FALSE)
    /\ UNCHANGED <<bufVars, renVars, edVars, evtVars, gfxVars, loopVars>>

Subdivide ==
    /\ sub < MaxDepth
    /\ faces' = SubdivideMesh(faces, sub)
    /\ sub' = sub + 1
    /\ ret' = Ret("subdivide", 0, << >>, FALSE)
    /\ UNCHANGED <<bufVars, renVars, edVars, evtVars, gfxVars, loopVars>>

Face(index) ==
    /\ ret' = Ret("face", index, face(faces, index), FaceAssertFails(faces, index))
    /\ UNCHANGED <<faces, sub>>
    /\ UNCHANGED <<bufVars, renVars, edVars, evtVars, gfxVars, loopVars>>

VertexData ==
    /\ ret' = Ret("vertex_data", 0, vertex_data(faces), FALSE)
    /\ UNCHANGED <<faces, sub>>
    /\ UNCHANGED <<bufVars, renVars, edVars, evtVars, gfxVars, loopVars>>

\* variant of Update that bumps the generation on every call
Update_AlwaysBump(len) ==
    /\ Len(calls) <= MaxUpdates
    /\ IF NeedsRealloc(len, num_items)
       THEN buffer' = create_buffer_size(buffer, len)
       ELSE UNCHANGED buffer
    /\ generation' = generation + 1
    /\ num_items' = len
    /\ calls' = Append(calls, len)
    /\ UNCHANGED <<icoVars, renVars, edVars, evtVars, gfxVars, loopVars>>

\* ItemBuffer::update(device, queue, data) with data.len() = len
Update(len) ==
    /\ Len(calls) <= MaxUpdates
    /\ InnerBecomes(ItemBuffer_update(ItemBufferInner, len))
    /\ UNCHANGED <<icoVars, renVars, edVars, evtVars, gfxVars, loopVars>>

\* ItemBuffer::update on the data a renderer was built over
DataUpdate(len) ==
    /\ Len(calls) <= MaxDataUpdates
    /\ Update(len)

\* Renderer::update(device, samples) on the screen renderer
RendererUpdate(samples) ==
    /\ ico_screen' = Renderer_update(ico_screen, samples, ItemBufferInner)
    /\ ren_ret' = RenRet("update", generation,
                         ~ico_screen.pipeline_valid \/ ~ico_screen.bundle_valid)
    /\ UNCHANGED <<icoVars, bufVars, ico_select, edVars, evtVars, gfxVars, loopVars>>

\* Renderer::invalid(invalid) on the screen renderer
Invalid(invalid) ==
    /\ ico_screen.bundle.id < MaxBuilds
    /\ ico_screen' = Renderer_invalid(ico_screen, invalid)
    /\ ren_ret' = RenRet("invalid", ren_ret.generation, TRUE)
    /\ UNCHANGED <<icoVars, bufVars, ico_select, edVars, evtVars, gfxVars, loopVars>>

\* Editor::update up to the return of mapped_read (the runner lock is
\* held by the update thread from here to the end of the call)
EditorUpdateBegin ==
    /\ pc.update = "idle"
    /\ pc.main # "resize"
    /\ ~ed_ret.panicked
    /\ LET sc == on_change(state.samples)
           dc == on_change(state.size)
           mesh == IF dc.changed THEN divs(dc.value) ELSE faces
           index == pick_index(size, mouse_raw)
       IN  /\ state' = [size |-> dc.after, samples |-> sc.after]
           /\ IF sc.changed
              THEN /\ ico_screen' = Renderer_invalid(ico_screen, "Pipeline")
                   /\ ren_ret' = RenRet("invalid", ren_ret.generation, TRUE)
              ELSE UNCHANGED <<ico_screen, ren_ret>>
           /\ textures' = IF sc.changed
                          THEN [textures EXCEPT
                                  !.sampled_depth_texture = with_samples(@, sc.value),
                                  !.msaa = with_samples(@, sc.value)]
                          ELSE textures
           /\ IF dc.changed
              THEN /\ faces' = mesh
                   /\ sub' = dc.value
                   /\ ret' = Ret(IF dc.value = 0 THEN "base" ELSE "subdivide", 0, << >>, FALSE)
                   /\ InnerBecomes(ItemBuffer_update(ItemBufferInner, Len(vertex_data(mesh))))
              ELSE UNCHANGED <<icoVars, bufVars>>
           /\ select_buffer' = [select_buffer EXCEPT !.mapped = TRUE]
           /\ ed_ret' = EdRet("mapped_read", sc.changed, dc.changed, index,
                              mapped_read(select_buffer.words, index), FALSE)
    /\ pc' = [pc EXCEPT !.update = "mapped"]
    /\ UNCHANGED <<evtVars, loopVars, target>>
    /\ UNCHANGED <<ico_select, size, mouse_raw, selected, ico_uniform, encoder>>

\* Editor::update from the selection test to its return
EditorUpdateEnd ==
    /\ pc.update = "mapped"
    /\ LET new == ed_ret.new
           s == IF selected # new
                THEN select_siblings(faces, new)
                ELSE << ico_uniform.s1, ico_uniform.s2, ico_uniform.s3 >>
       IN  /\ selected' = new
           /\ ico_uniform' = [selected |-> new, s1 |-> s[1], s2 |-> s[2], s3 |-> s[3]]
           /\ ed_ret' = [ed_ret EXCEPT !.op = "update",
                                       !.panicked = selected # new /\ FaceAssertFails(faces, new)]
    /\ select_buffer' = [select_buffer EXCEPT !.mapped = FALSE]
    /\ ico_screen' = Renderer_update(ico_screen, state.samples.new, ItemBufferInner)
    /\ ico_select' = Renderer_update(ico_select, SelectSamples, ItemBufferInner)
    /\ ren_ret' = RenRet("update", generation,
                         ~ico_screen.pipeline_valid \/ ~ico_screen.bundle_valid)
    /\ pc' = [pc EXCEPT !.update = "idle"]
    /\ UNCHANGED <<evtVars, loopVars, gfxVars>>
    /\ UNCHANGED <<icoVars, bufVars, state, size, mouse_raw, encoder>>

\* Editor::render under the runner lock: the two passes and the copy of the
\* select texture are recorded, and the editor's window is drawn, in which
\* the user leaves the depth d and the sample count s
RenderRecord(d, s) ==
    /\ pc.main = "idle"
    /\ pc.update = "idle"
    /\ ~ed_ret.panicked
    /\ (d # state.size.new \/ s # state.samples.new) => ico_screen.bundle.id < MaxBuilds
    /\ \E accepted \in CopyOutcomes(copy_layout(target.sc_desc)) :
          /\ encoder' = << [msaa |-> state.samples.new # 1,
                            samples |-> state.samples.new,
                            screen |-> ico_screen.bundle,
                            select |-> ico_select.bundle,
                            copy |-> copy_layout(target.sc_desc),
                            frame |-> target.swap_chain,
                            attachments |-> textures,
                            buffer |-> select_buffer.num_items] >>
          /\ ed_ret' = [ed_ret EXCEPT !.op = "render", !.panicked = ~accepted]
    /\ state' = [state EXCEPT !.size.new = d, !.samples.new = s]
    /\ pc' = [pc EXCEPT !.main = "recorded"]
    /\ UNCHANGED <<evtVars, loopVars, gfxVars>>
    /\ UNCHANGED <<icoVars, bufVars, renVars, size, mouse_raw, selected,
                   ico_uniform, select_buffer>>

\* RenderState::render after the runner lock is released: queue.submit of
\* the recorded commands; the select pass leaves picture k in the texture
\* and the copy puts it in the read-back buffer, unless the buffer is mapped
RenderSubmit ==
    /\ pc.main = "recorded"
    /\ ~ed_ret.panicked
    /\ IF select_buffer.mapped
       THEN /\ ed_ret' = [ed_ret EXCEPT !.op = "submit", !.panicked = TRUE]
            /\ UNCHANGED select_buffer
       ELSE /\ \E k \in Pictures :
                  select_buffer' = [select_buffer EXCEPT
                      !.words = copy_texture_to_buffer(@, k, encoder[1].copy)]
            /\ ed_ret' = [ed_ret EXCEPT !.op = "submit"]
    /\ encoder' = << >>
    /\ pc' = [pc EXCEPT !.main = "idle"]
    /\ UNCHANGED <<evtVars, loopVars, gfxVars>>
    /\ UNCHANGED <<icoVars, bufVars, renVars, state, size, mouse_raw, selected,
                   ico_uniform>>

\* RenderState::resize up to target.resize: the target lock and the runner
\* lock are taken and the swap target is rebuilt for the size sz
ResizeTarget(sz) ==
    /\ pc.main = "idle"
    /\ pc.update = "idle"
    /\ ~ed_ret.panicked
    /\ target' = RenderTarget_resize(target, sz)
    /\ pc' = [pc EXCEPT !.main = "resize"]
    /\ UNCHANGED <<evtVars, loopVars, textures>>
    /\ UNCHANGED <<icoVars, bufVars, renVars, state, size, mouse_raw, selected,
                   ico_uniform, select_buffer, encoder, ed_ret>>

\* RenderState::resize from runner.resize(device, target.size()) on:
\* Editor::resize, then both locks are released
Resize(fill) ==
    /\ pc.main = "resize"
    /\ size' = target.sc_desc
    /\ textures' = resize_textures(textures, size')
    /\ select_buffer' = make_buffer(textures'.select.size, fill)
    /\ ed_ret' = [ed_ret EXCEPT !.op = "resize"]
    /\ pc' = [pc EXCEPT !.main = "idle"]
    /\ UNCHANGED <<evtVars, loopVars, target>>
    /\ UNCHANGED <<icoVars, bufVars, renVars, state, mouse_raw, selected,
                   ico_uniform, encoder>>

\* Editor::input(WindowEvent::CursorMoved { position }), under the runner
\* lock
CursorMoved(position) ==
    /\ pc.update = "idle"
    /\ pc.main # "resize"
    /\ ~ed_ret.panicked
    /\ mouse_raw' = position
    /\ ed_ret' = [ed_ret EXCEPT !.op = "input"]
    /\ UNCHANGED <<evtVars, loopVars, gfxVars>>
    /\ UNCHANGED <<icoVars, bufVars, renVars, state, size, selected,
                   ico_uniform, select_buffer, encoder, pc>>

NextIco ==
    \/ Base
    \/ Subdivide
    \/ \E index \in (0..MaxProbe) \cup {Len(faces), Len(faces) + 1} : Face(index)
    \/ VertexData

NextBuf == \E len \in 0..MaxLen : Update(len)

NextRen ==
    \/ \E len \in 0..MaxLen : DataUpdate(len)
    \/ \E samples \in EdSamples : RendererUpdate(samples)
    \/ \E invalid \in {"Pipeline", "Bundle"} : Invalid(invalid)

SpecIco == Init /\ [][NextIco]_vars
SpecBuf == InitBuf /\ [][NextBuf]_vars
SpecRen == InitRen /\ [][NextRen]_vars

\* the editor with a window of a fixed size and a resting cursor, its depth
\* and sample settings changing
InitEd == EditorNew(<<64, 2>>, 0) /\ InitEvents

NextEd ==
    \/ EditorUpdateBegin
    \/ EditorUpdateEnd
    \/ \E d \in Depths, s \in EdSamples : RenderRecord(d, s)
    \/ RenderSubmit

SpecEd == InitEd /\ [][NextEd]_vars

\* the editor with its settings left alone, the window resized and the
\* cursor moving
InitPick == (\E sz \in Sizes, fill \in Fills : EditorNew(sz, fill)) /\ InitEvents

NextPick ==
    \/ EditorUpdateBegin
    \/ EditorUpdateEnd
    \/ RenderRecord(state.size.new, state.samples.new)
    \/ RenderSubmit
    \/ \E sz \in Sizes : ResizeTarget(sz)
    \/ \E fill \in Fills : Resize(fill)
    \/ \E position \in MousePositions : CursorMoved(position)

SpecPick == InitPick /\ [][NextPick]_vars

(* --------------------------- event hand-off --------------------------- *)
\* the variants of RunnerEvent the event loop pushes: a device event, a
\* forwarded window event and a user event (RenderComplete)
EventKinds == {"Device", "Window", "User"}

\* VecDeque::push_back
push_back(q, e) == Append(q, e)

\* VecDeque::pop_back, taken where pop_front is
pop_back(q) ==
    IF q = << >>
    THEN [event |-> << >>, queue |-> q]
    ELSE [event |-> <<q[Len(q)]>>, queue |-> SubSeq(q, 1, Len(q) - 1)]

\* VecDeque::pop_front: the Option returned (<< >> for None, <<e>> for
\* Some(e)) and the queue left
pop_front(q) ==
    IF q = << >>
    THEN [event |-> << >>, queue |-> q]
    ELSE [event |-> <<Head(q)>>, queue |-> Tail(q)]

\* variant of notify_one that wakes nobody
notify_one_Lost(p) == p

\* Condvar::notify_one on a thread at position p: a thread parked in wait
\* is woken, any other is left alone
notify_one(p) == IF p = "waiting" THEN "woken" ELSE p

\* what the event loop closure does first for the event it is called with:
\* "push" for a device, window or user event it forwards (it locks the
\* queue), "update" for RedrawRequested (runner.update locks the runner,
\* renderer.render follows), "resize" for Resized and ScaleFactorChanged
\* (renderer.resize locks the target)
Dispatches == {"push", "update", "resize"}

\* the event loop closure is called with an event
Dispatch(next) ==
    /\ loop_pc = "idle"
    /\ next = "push" => Len(pushed) < MaxEvents
    /\ loop_pc' = next
    /\ UNCHANGED <<queue, queue_lock, runner_lock, event, input_pc, pushed, applied>>
    /\ UNCHANGED <<icoVars, bufVars, renVars, edVars, gfxVars, loopVars, target_lock>>

\* the event loop: lock.lock().push_back(RunnerEvent::..(event)); the guard
\* is a temporary dropped at the end of the statement
Push(kind) ==
    /\ loop_pc = "push"
    /\ queue_lock = "none"
    /\ Len(pushed) < MaxEvents
    /\ LET e == [kind |-> kind, id |-> Len(pushed) + 1]
       IN  /\ queue' = push_back(queue, e)
           /\ pushed' = Append(pushed, e)
    /\ loop_pc' = "notify"
    /\ UNCHANGED <<queue_lock, runner_lock, event, input_pc, applied>>
    /\ UNCHANGED <<icoVars, bufVars, renVars, edVars, gfxVars, loopVars, target_lock>>

\* the event loop: cvar.notify_one()
Notify ==
    /\ loop_pc = "notify"
    /\ input_pc' = notify_one(input_pc)
    /\ loop_pc' = "idle"
    /\ UNCHANGED <<queue, queue_lock, runner_lock, event, pushed, applied>>
    /\ UNCHANGED <<icoVars, bufVars, renVars, edVars, gfxVars, loopVars, target_lock>>

\* where the event loop is once it holds the target lock it wanted at p: in
\* RenderState::render before target.frame(), in RenderState::resize, in the
\* block that reads target.size() after a lost swap chain
TargetLocked(p) ==
    IF p = "frame" THEN "target" ELSE IF p = "resize" THEN "resize_target" ELSE "sized"

\* the event loop: self.target.lock() of RenderState::render and
\* RenderState::resize, renderer.target.lock() of the Lost arm of run
MainTargetLock ==
    /\ loop_pc \in {"frame", "resize", "size"}
    /\ target_lock = "none"
    /\ target_lock' = "main"
    /\ loop_pc' = TargetLocked(loop_pc)
    /\ UNCHANGED <<queue, queue_lock, runner_lock, event, input_pc, pushed, applied>>
    /\ UNCHANGED <<icoVars, bufVars, renVars, edVars, gfxVars, loopVars>>

\* where the event loop is once it holds the runner lock it wanted at p: in
\* the first and the second statement of MainRunner::update, in
\* Editor::render under the target lock, in Editor::resize under the target
\* lock, in MainRunner::render under the target lock
MainLocked(p) ==
    IF p = "update" THEN "updating"
    ELSE IF p = "update2" THEN "updating2"
    ELSE IF p = "target" THEN "render"
    ELSE IF p = "resize_target" THEN "resizing"
    ELSE "ui_render"

\* the event loop takes the runner lock: self.runner.lock() twice in
\* MainRunner::update, thread_runner.lock() of RenderState::render,
\* runner.lock() of RenderState::resize, self.runner.lock() of
\* MainRunner::render
MainRunnerLock ==
    /\ loop_pc \in {"update", "update2", "target", "resize_target", "ui"}
    /\ runner_lock = "none"
    /\ runner_lock' = "main"
    /\ loop_pc' = MainLocked(loop_pc)
    /\ UNCHANGED <<queue, queue_lock, event, input_pc, pushed, applied>>
    /\ UNCHANGED <<icoVars, bufVars, renVars, edVars, gfxVars, loopVars, target_lock>>

\* variant of MainUnlocked in which the guard taken for Editor::render
\* lives on into MainRunner::render
MainUnlocked_Held(p) ==
    IF p = "updating" THEN [pc |-> "update2", runner |-> "none"]
    ELSE IF p = "updating2" THEN [pc |-> "frame", runner |-> "none"]
    ELSE IF p = "render" THEN [pc |-> "ui", runner |-> "main"]
    ELSE IF p = "resizing" THEN [pc |-> "resized", runner |-> "none"]
    ELSE [pc |-> "submit", runner |-> "none"]

\* where the event loop goes when the scope of the runner guard it holds at
\* p ends, and who holds the runner lock then: the guards of
\* MainRunner::update are temporaries of its two statements, the guard of
\* Editor::render lives in a block closed before runner.render, the guard
\* of RenderState::resize is dropped on return just before the target
\* guard, the guard of MainRunner::render on its return, before
\* queue.submit
MainUnlocked(p) ==
    IF p = "updating" THEN [pc |-> "update2", runner |-> "none"]
    ELSE IF p = "updating2" THEN [pc |-> "frame", runner |-> "none"]
    ELSE IF p = "render" THEN [pc |-> "ui", runner |-> "none"]
    ELSE IF p = "resizing" THEN [pc |-> "resized", runner |-> "none"]
    ELSE [pc |-> "submit", runner |-> "none"]

\* the scope of a runner guard taken by the event loop ends
MainRunnerUnlock ==
    /\ loop_pc \in {"updating", "updating2", "render", "resizing", "ui_render"}
    /\ loop_pc' = MainUnlocked(loop_pc).pc
    /\ runner_lock' = MainUnlocked(loop_pc).runner
    /\ UNCHANGED <<queue, queue_lock, event, input_pc, pushed, applied>>
    /\ UNCHANGED <<icoVars, bufVars, renVars, edVars, gfxVars, loopVars, target_lock>>

\* where the event loop can go when it drops the target guard it holds at
\* p: target.frame()? returned an error (a lost swap chain sends the loop
\* to read the size, any other error ends the handler), the size was read
\* and renderer.resize follows, render or resize returned
TargetUnlocked(p) ==
    IF p = "target" THEN {"size", "idle"}
    ELSE IF p = "sized" THEN {"resize"}
    ELSE {"idle"}

\* the event loop drops the target guard
MainTargetUnlock ==
    /\ loop_pc \in {"target", "sized", "submit", "resized"}
    /\ target_lock' = "none"
    /\ \E next \in TargetUnlocked(loop_pc) : loop_pc' = next
    /\ UNCHANGED <<queue, queue_lock, runner_lock, event, input_pc, pushed, applied>>
    /\ UNCHANGED <<icoVars, bufVars, renVars, edVars, gfxVars, loopVars>>

\* the update thread: runner.lock() of runner.lock().update(..)
UpdateLock ==
    /\ runner_lock = "none"
    /\ runner_lock' = "update"
    /\ UNCHANGED <<queue, queue_lock, event, input_pc, loop_pc, pushed, applied>>
    /\ UNCHANGED <<icoVars, bufVars, renVars, edVars, gfxVars, loopVars, target_lock>>

\* the update thread: update returned and the guard is dropped
UpdateUnlock ==
    /\ runner_lock = "update"
    /\ runner_lock' = "none"
    /\ UNCHANGED <<queue, queue_lock, event, input_pc, loop_pc, pushed, applied>>
    /\ UNCHANGED <<icoVars, bufVars, renVars, edVars, gfxVars, loopVars, target_lock>>

\* the input thread: let mut queue = lock.lock(), once, before the loop
InputQueueLock ==
    /\ input_pc = "start"
    /\ queue_lock = "none"
    /\ queue_lock' = "input"
    /\ input_pc' = "loop"
    /\ UNCHANGED <<queue, runner_lock, event, loop_pc, pushed, applied>>
    /\ UNCHANGED <<icoVars, bufVars, renVars, edVars, gfxVars, loopVars, target_lock>>

\* the input thread: while let Some(event) = queue.pop_front(), and the
\* exit of the while loop on None
InputPop ==
    /\ input_pc = "loop"
    /\ LET popped == pop_front(queue)
       IN  /\ queue' = popped.queue
           /\ event' = popped.event
           /\ input_pc' = IF popped.event = << >> THEN "wait" ELSE "lock"
    /\ UNCHANGED <<queue_lock, runner_lock, loop_pc, pushed, applied>>
    /\ UNCHANGED <<icoVars, bufVars, renVars, edVars, gfxVars, loopVars, target_lock>>

\* the input thread: let mut runner = runner.lock()
InputRunnerLock ==
    /\ input_pc = "lock"
    /\ runner_lock = "none"
    /\ runner_lock' = "input"
    /\ input_pc' = "input"
    /\ UNCHANGED <<queue, queue_lock, event, loop_pc, pushed, applied>>
    /\ UNCHANGED <<icoVars, bufVars, renVars, edVars, gfxVars, loopVars, target_lock>>

\* the input thread: runner.input(event)
InputApply ==
    /\ input_pc = "input"
    /\ applied' = Append(applied, [event |-> event[1], runner_lock |-> runner_lock])
    /\ event' = << >>
    /\ input_pc' = "unlock"
    /\ UNCHANGED <<queue, queue_lock, runner_lock, loop_pc, pushed>>
    /\ UNCHANGED <<icoVars, bufVars, renVars, edVars, gfxVars, loopVars, target_lock>>

\* the input thread: the end of the body of the while loop drops the
\* runner guard
InputRunnerUnlock ==
    /\ input_pc = "unlock"
    /\ runner_lock' = "none"
    /\ input_pc' = "loop"
    /\ UNCHANGED <<queue, queue_lock, event, loop_pc, pushed, applied>>
    /\ UNCHANGED <<icoVars, bufVars, renVars, edVars, gfxVars, loopVars, target_lock>>

\* the input thread: cvar.wait(&mut queue) unlocks the queue and parks
InputWait ==
    /\ input_pc = "wait"
    /\ queue_lock' = "none"
    /\ input_pc' = "waiting"
    /\ UNCHANGED <<queue, runner_lock, event, loop_pc, pushed, applied>>
    /\ UNCHANGED <<icoVars, bufVars, renVars, edVars, gfxVars, loopVars, target_lock>>

\* the input thread: cvar.wait returns once it was notified and has locked
\* the queue again
InputWake ==
    /\ input_pc = "woken"
    /\ queue_lock = "none"
    /\ queue_lock' = "input"
    /\ input_pc' = "loop"
    /\ UNCHANGED <<queue, runner_lock, event, loop_pc, pushed, applied>>
    /\ UNCHANGED <<icoVars, bufVars, renVars, edVars, gfxVars, loopVars, target_lock>>

\* the event loop, the input thread and the update thread next to each
\* other over the editor as Editor::new leaves it
InitEvt == EditorNew(<<64, 2>>, 0) /\ InitEvents

NextEvt ==
    \/ \E kind \in EventKinds : Push(kind)
    \/ Notify
    \/ \E next \in Dispatches : Dispatch(next)
    \/ MainTargetLock
    \/ MainRunnerLock
    \/ MainRunnerUnlock
    \/ MainTargetUnlock
    \/ UpdateLock
    \/ UpdateUnlock
    \/ InputQueueLock
    \/ InputPop
    \/ InputRunnerLock
    \/ InputApply
    \/ InputRunnerUnlock
    \/ InputWait
    \/ InputWake

SpecEvt == InitEvt /\ [][NextEvt]_vars

(* ----------------------------- frame loop ----------------------------- *)
\* the two binaries of the repository: the engine's run() with its threads
\* and the root crate's main()
Programs == {"engine", "root"}

\* wgpu::SwapChainError
SwapChainErrors == {"Timeout", "Outdated", "Lost", "OutOfMemory"}

\* one handled RedrawRequested whose render returned Err(result): what the
\* match arm did, the size of sc_desc at the time and the size the swap
\* chain has afterwards
Frame(result, did, before, after) ==
    [result |-> result, did |-> did, size |-> before, swap_chain |-> after]

\* run(), Event::RedrawRequested when renderer.render returns Err(result):
\* target.frame()? fails before the runner is locked; Lost reads the size
\* under the target lock and calls renderer.resize, which takes both locks
\* and rebuilds the swap target (Editor::resize follows as Resize);
\* OutOfMemory does nothing; any other error is logged
RedrawError(result) ==
    /\ program = "engine"
    /\ control_flow = "Poll"
    /\ Len(frames) < MaxFrames
    /\ pc.main = "idle"
    /\ ~ed_ret.panicked
    /\ IF result = "Lost"
       THEN /\ pc.update = "idle"
            /\ target' = RenderTarget_resize(target, target.sc_desc)
            /\ pc' = [pc EXCEPT !.main = "resize"]
            /\ frames' = Append(frames, Frame(result, "resize", target.sc_desc,
                                              target'.swap_chain))
       ELSE /\ frames' = Append(frames,
                   Frame(result, IF result = "OutOfMemory" THEN "skip" ELSE "log",
                         target.sc_desc, target.swap_chain))
            /\ UNCHANGED <<target, pc>>
    /\ UNCHANGED <<control_flow, program, textures, evtVars>>
    /\ UNCHANGED <<icoVars, bufVars, renVars, state, size, mouse_raw, selected,
                   ico_uniform, select_buffer, encoder, ed_ret>>

\* main() of the root crate, Event::RedrawRequested when state.render
\* returns Err(result): Lost calls state.resize(state.size), which rebuilds
\* the swap chain and calls Editor::resize; OutOfMemory sets
\* ControlFlow::Exit; any other error is printed
main_RedrawError(result, fill) ==
    /\ program = "root"
    /\ control_flow = "Poll"
    /\ Len(frames) < MaxFrames
    /\ pc.main = "idle"
    /\ pc.update = "idle"
    /\ ~ed_ret.panicked
    /\ IF result = "Lost"
       THEN /\ target' = RenderTarget_resize(target, size)
            /\ size' = target'.sc_desc
            /\ textures' = resize_textures(textures, size')
            /\ select_buffer' = make_buffer(textures'.select.size, fill)
            /\ frames' = Append(frames, Frame(result, "resize", target.sc_desc,
                                              target'.swap_chain))
            /\ UNCHANGED control_flow
       ELSE /\ frames' = Append(frames,
                   Frame(result, IF result = "OutOfMemory" THEN "exit" ELSE "log",
                         target.sc_desc, target.swap_chain))
            /\ control_flow' = IF result = "OutOfMemory" THEN "Exit" ELSE control_flow
            /\ UNCHANGED <<target, size, textures, select_buffer>>
    /\ UNCHANGED <<program, evtVars>>
    /\ UNCHANGED <<icoVars, bufVars, renVars, state, mouse_raw, selected,
                   ico_uniform, encoder, pc, ed_ret>>

\* either program with frames that are presented (RenderRecord,
\* RenderSubmit) and frames that fail, the editor updated in between
InitLoopEd == EditorNew(<<64, 2>>, 0) /\ InitQueue /\ \E p \in Programs : InitLoop(p)

NextLoop ==
    \/ \E result \in SwapChainErrors : RedrawError(result)
    \/ \E result \in SwapChainErrors, fill \in Fills : main_RedrawError(result, fill)
    \/ \E fill \in Fills : Resize(fill)
    \/ EditorUpdateBegin
    \/ EditorUpdateEnd
    \/ RenderRecord(state.size.new, state.samples.new)
    \/ RenderSubmit

SpecLoop == InitLoopEd /\ [][NextLoop]_vars

(* ------------------------------ claims -------------------------------- *)
\* the number of slots of a sibling triple that hold x
SlotCount(t, x) == Cardinality({k \in 1..3 : t[k] = x})

\* the corner indices used by a mesh
Corners(fs) == {fs[p].indices[k] : p \in 1..Len(fs), k \in 1..3}

\* C1: sibling symmetry.  In every mesh built by base() and any number of
\* subdivide() calls, whenever face A names face B in one of its sibling
\* slots, B is a face of the mesh and names A in exactly one of its three
\* slots; and when face 5 of the depth-0 mesh is looked up, each of its
\* three siblings names 5 exactly once.
C1_SiblingSymmetry ==
    /\ \A p \in 1..Len(faces) : \A e \in 1..3 :
          LET b == faces[p].siblings[e]
          IN  b # None =>
                /\ face(faces, b) # << >>
                /\ face(faces, b)[1].index = b
                /\ SlotCount(face(faces, b)[1].siblings, faces[p].index) = 1
    /\ (sub = 0 /\ ret.op = "face" /\ ret.arg = 5) =>
          /\ ret.val # << >>
          /\ \A e \in 1..3 :
                LET sib == face(faces, ret.val[1].siblings[e])
                IN  sib # << >> /\ SlotCount(sib[1].siblings, 5) = 1

\* C1 witness: a mesh of depth two or more in which a child of parent 1
\* names a child of another parent
C1_Witness ==
    /\ sub >= 2
    /\ ret.op = "subdivide"
    /\ \E e \in 1..3 : faces[1].siblings[e] > 4

\* C2: face count.  The mesh after d subdivisions has 20 * 4^d faces;
\* base() gives 20 and each subdivide() gives four times as many.
C2_FaceCount ==
    /\ Len(faces) = 20 * (4 ^ sub)
    /\ ret.op = "base" => Len(faces) = 20

\* C2 witness: two subdivisions gave 320 faces
C2_Witness == sub = 2 /\ Len(faces) = 320

\* C3: adjacency completeness.  When base() or subdivide() has returned,
\* no sibling slot of any face is None.
C3_AdjacencyComplete ==
    \A p \in 1..Len(faces) : \A e \in 1..3 : faces[p].siblings[e] # None

\* C3 witness: the last face of a subdivided mesh has three siblings
C3_Witness ==
    /\ sub >= 1
    /\ \A e \in 1..3 : faces[Len(faces)].siblings[e] \in 1..Len(faces)

\* C4: dense face indices.  The face at list position i-1 has index i, so
\* the indices are distinct and are exactly 1..face_count; every sibling
\* reference lies in that range; a mesh made by base() starts at index 1.
C4_DenseIndices ==
    /\ \A p \in 1..Len(faces) : faces[p].index = p
    /\ \A p \in 1..Len(faces) : \A e \in 1..3 :
          faces[p].siblings[e] # None => faces[p].siblings[e] \in 1..Len(faces)
    /\ ret.op = "base" => faces[1].index = 1

\* C4 witness: a subdivided mesh whose last face carries face_count
C4_Witness == sub >= 1 /\ faces[Len(faces)].index = 4 * 20 * (4 ^ (sub - 1))

\* C5: face lookup.  face(0) is None; for 1 <= i <= face_count face(i) is
\* the face whose index field is i and the debug assertion holds; for
\* i > face_count face(i) is None.
C5_FaceLookup ==
    ret.op = "face" =>
        /\ ret.arg = 0 => ret.val = << >>
        /\ (1 <= ret.arg /\ ret.arg <= Len(faces)) =>
              /\ ret.val # << >>
              /\ ret.val[1].index = ret.arg
              /\ ~ret.panicked
        /\ ret.arg > Len(faces) => ret.val = << >>

\* C5 witness: the last face of a subdivided mesh was looked up and found
C5_Witness ==
    /\ sub >= 1
    /\ ret.op = "face"
    /\ ret.arg = Len(faces)
    /\ ret.val # << >>

\* the midpoint index a subdivide() step gave to edge e of parent p, read
\* from the centre child 4p of the new mesh
Midpoint(new, p, e) == new[4 * p].indices[e]

\* C6: midpoint index allocation.  In every subdivide() step the two faces
\* bordering an edge get the same midpoint index for it, different edges
\* get different midpoint indices, and every midpoint index is different
\* from every corner index of the mesh being subdivided.
C6_MidpointAllocation ==
    [][sub' = sub + 1 =>
        /\ \A p \in 1..Len(faces) : \A e \in 1..3 : \A m \in 1..3 :
              LET b == faces[p].siblings[e]
              IN  faces[b].siblings[m] = p =>
                     Midpoint(faces', p, e) = Midpoint(faces', b, m)
        /\ Cardinality({Midpoint(faces', p, e) : p \in 1..Len(faces), e \in 1..3})
              = (3 * Len(faces)) \div 2
        /\ {Midpoint(faces', p, e) : p \in 1..Len(faces), e \in 1..3}
              \cap Corners(faces) = {}
    ]_vars

\* C7: vertex emission.  vertex_data() returns 3 * face_count vertices in
\* face-list order, and the vertex at 0-based position k carries the face
\* index floor(k / 3) + 1.
C7_VertexEmission ==
    ret.op = "vertex_data" =>
        /\ Len(ret.val) = 3 * Len(faces)
        /\ \A k \in 1..Len(ret.val) :
              /\ ret.val[k].index = ((k - 1) \div 3) + 1
              /\ ret.val[k].index = faces[((k - 1) \div 3) + 1].index
              /\ ret.val[k].position = faces[((k - 1) \div 3) + 1].indices[((k - 1) % 3) + 1]

\* C7 witness: the vertices of a subdivided mesh were emitted
C7_Witness ==
    /\ sub >= 1
    /\ ret.op = "vertex_data"
    /\ Len(ret.val) = 3 * Len(faces)

\* C8: buffer hysteresis.  An update reallocates exactly when the new
\* length exceeds the capacity (the size of the allocation held) or is
\* below half of it.
C8_HysteresisByCapacity ==
    [][Len(calls') = Len(calls) + 1 =>
        ((buffer'.id # buffer.id) <=>
            (num_items' > buffer.size \/ num_items' < buffer.size \div 2))
    ]_vars

\* the lengths n (construction), n+1, n, n+1, n, ...
IsOscillation(c) ==
    /\ Len(c) >= 2
    /\ \A k \in 2..Len(c) : c[k] = IF k % 2 = 0 THEN c[1] + 1 ELSE c[1]

\* C9: bounded churn.  Under updates whose lengths oscillate by one
\* (n+1, n, n+1, n, ...) on a buffer built for n items there is at most one
\* reallocation, however long the oscillation.
C9_BoundedChurn == IsOscillation(calls) => generation <= 1

\* C10: generation counter.  In every update the generation does not
\* decrease; it grows by exactly one when the update replaces the buffer
\* and stays as it is when the update writes in place.
C10_GenerationCounter ==
    [][/\ generation' >= generation
       /\ buffer' # buffer => generation' = generation + 1
       /\ buffer' = buffer => generation' = generation
    ]_vars

\* C10 witness: a buffer that was replaced by one update and written in
\* place by another
C10_Witness ==
    /\ generation >= 1
    /\ buffer.id = generation
    /\ Len(calls) - 1 > generation

\* a step that is a Renderer::update call on the screen renderer
IsRendererUpdate ==
    /\ ren_ret'.op = "update"
    /\ UNCHANGED bufVars

\* C11: bundle rebuild condition.  The bundle is built at Renderer::new; a
\* later Renderer::update rebuilds it when the data's generation changed
\* since the previous update or construction or when an invalidation was
\* requested, and does not rebuild it when the generation is unchanged
\* since then and no invalidation was requested, the first update after
\* construction included.
C11_BundleRebuildCondition ==
    [][IsRendererUpdate =>
        LET changed == generation # ren_ret.generation
            requested == ~ico_screen.pipeline_valid \/ ~ico_screen.bundle_valid
        IN  /\ (changed \/ requested) => ico_screen'.bundle # ico_screen.bundle
            /\ ~(changed \/ requested) => ico_screen'.bundle = ico_screen.bundle
    ]_vars

\* C12: no stale pipeline.  When Renderer::update returns, both validity
\* flags are true and the bundle in use was built against the pipeline
\* object stored; an update that rebuilds the pipeline rebuilds the bundle
\* in the same call.
C12_NoStalePipeline ==
    [][IsRendererUpdate =>
        /\ ico_screen'.pipeline_valid
        /\ ico_screen'.bundle_valid
        /\ ico_screen'.bundle.pipeline = ico_screen'.pipeline.id
        /\ ico_screen'.pipeline # ico_screen.pipeline =>
              ico_screen'.bundle.id = ico_screen.bundle.id + 1
    ]_vars

\* C12 witness: an update that had a pipeline invalidation pending returned
\* with a second pipeline object and a bundle built against it
C12_Witness ==
    /\ ren_ret.op = "update"
    /\ ren_ret.pending
    /\ ico_screen.pipeline.id >= 2
    /\ ico_screen.bundle.pipeline = ico_screen.pipeline.id

\* C13: no skipped rebuild on content change.  When Renderer::update
\* returns after any ItemBuffer::update calls, the bundle in use was
\* recorded from the buffer's current allocation and draws 0..num_items
\* for the buffer's current item count.
C13_NoStaleDrawRange ==
    [][IsRendererUpdate =>
        /\ ico_screen'.bundle.vb = buffer.id
        /\ ico_screen'.bundle.draw = num_items
    ]_vars

\* the steps of the update thread and of the main thread
IsUpdateBegin == pc.update = "idle" /\ pc'.update = "mapped"
IsUpdateEnd == pc.update = "mapped" /\ pc'.update = "idle"
IsRecord == pc.main = "idle" /\ pc'.main = "recorded"
IsSubmit == pc.main = "recorded" /\ pc'.main = "idle"

\* the cursor is inside the target
CursorInside == mouse_raw[1] < size[1] /\ mouse_raw[2] < size[2]

\* C14: unmap before copy.  Editor::update maps and reads the selection
\* read-back buffer and then unmaps it, so that when a frame's copy into
\* that buffer is recorded and when it is submitted the buffer is not
\* mapped, for any sequence of frames and resizes.
C14_UnmapBeforeCopy ==
    [][/\ IsUpdateBegin => ~select_buffer.mapped /\ select_buffer'.mapped
       /\ IsUpdateEnd => ~select_buffer'.mapped
       /\ IsRecord => ~select_buffer.mapped
       /\ IsSubmit => ~select_buffer.mapped
    ]_vars

\* the siblings of the face of the mesh fs that carries the index i, or
\* three zeros when i is 0 or no face carries it
SiblingsOrZero(fs, i) ==
    IF i # 0 /\ \E p \in 1..Len(fs) : fs[p].index = i
    THEN (fs[CHOOSE p \in 1..Len(fs) : fs[p].index = i]).siblings
    ELSE << 0, 0, 0 >>

\* C15: selection-driven highlight.  When the index decoded in
\* Editor::update differs from the selected one, s1, s2, s3 become the
\* three siblings of that face in the current mesh, or 0 when the index is
\* 0 or no such face exists, and selected becomes the decoded index; when
\* it is the same, selected, s1, s2 and s3 stay as they are.
C15_SelectionHighlight ==
    [][IsUpdateEnd =>
        /\ ed_ret.new # selected =>
              /\ selected' = ed_ret.new
              /\ << ico_uniform'.s1, ico_uniform'.s2, ico_uniform'.s3 >>
                    = SiblingsOrZero(faces, ed_ret.new)
        /\ ed_ret.new = selected =>
              /\ selected' = selected
              /\ ico_uniform'.s1 = ico_uniform.s1
              /\ ico_uniform'.s2 = ico_uniform.s2
              /\ ico_uniform'.s3 = ico_uniform.s3
    ]_vars

\* C15 witness: face 5 was picked and its three siblings are highlighted
C15_Witness ==
    /\ ed_ret.op = "update"
    /\ selected = 5
    /\ ico_uniform.s1 # 0
    /\ << ico_uniform.s1, ico_uniform.s2, ico_uniform.s3 >> = faces[5].siblings

\* C16: pick decode position.  For a cursor at (x, y) inside the target
\* the value decoded is the word of the read-back buffer stored for pixel
\* (x, y), the word at pixel index y * row_stride + x.
C16_PickDecodePosition ==
    (pc.update = "mapped" /\ CursorInside) =>
        ed_ret.new = select_buffer.words[(mouse_raw[2] * size[1]) + mouse_raw[1] + 1]

\* the width in bytes rounded up to the copy alignment
PaddedBytesPerRow(w) ==
    ((U32_SIZE * w + COPY_ALIGN - 1) \div COPY_ALIGN) * COPY_ALIGN

\* C17: read-back row stride.  For every target width the row stride that
\* sizes the read-back buffer, the bytes_per_row of the copy and the stride
\* of the pick offset are one value, the width rounded up to the 256-byte
\* alignment.
C17_RowStride ==
    /\ select_buffer.num_items * U32_SIZE = PaddedBytesPerRow(size[1]) * size[2]
    /\ encoder # << >> =>
          encoder[1].copy.bytes_per_row = PaddedBytesPerRow(size[1])
    /\ (pc.update = "mapped" /\ CursorInside) =>
          ed_ret.index * U32_SIZE
              = (mouse_raw[2] * PaddedBytesPerRow(size[1])) + (U32_SIZE * mouse_raw[1])

\* C18: depth-change detection.  Editor::update rebuilds the mesh and the
\* vertex buffer exactly when the depth setting differs from the depth last
\* applied; when it returns the mesh has 20 * 4^depth faces for the depth
\* setting, and an update that rebuilt the mesh rebuilds the bundles of the
\* screen renderer and of the selection renderer.
C18_DepthChange ==
    [][/\ IsUpdateBegin =>
            /\ (calls' # calls) <=> (state.size.new # state.size.old)
            /\ (calls' # calls) <=> ed_ret'.size_changed
            /\ calls' = calls => faces' = faces
            /\ calls' # calls =>
                  /\ calls' = Append(calls, 3 * Len(faces'))
                  /\ sub' = state.size.new
            /\ state'.size.old = state.size.new
       /\ IsUpdateEnd =>
            /\ Len(faces') = 20 * (4 ^ state'.size.new)
            /\ ed_ret.size_changed =>
                  /\ ico_screen'.bundle.id = ico_screen.bundle.id + 1
                  /\ ico_select'.bundle.id = ico_select.bundle.id + 1
                  /\ ico_screen'.bundle.draw = 3 * Len(faces')
                  /\ ico_select'.bundle.draw = 3 * Len(faces')
    ]_vars

\* C18 witness: an update found the depth lowered from 1 to 0 and returned
\* with the 20-face mesh and two new bundles drawing its 60 vertices
C18_Witness ==
    /\ ed_ret.op = "update"
    /\ ed_ret.size_changed
    /\ state.size.new = 0
    /\ Len(faces) = 20
    /\ ico_screen.bundle.draw = 60
    /\ ico_select.bundle.draw = 60

\* C19: multisample change scope.  A change of the samples setting
\* invalidates and rebuilds the pipeline of the screen renderer only, with
\* the new sample count; the pipeline of the selection renderer is not
\* invalidated and the selection renderer is updated with sample count 1.
C19_SampleChangeScope ==
    [][/\ IsUpdateBegin =>
            /\ (state.samples.new # state.samples.old) <=> ~ico_screen'.pipeline_valid
            /\ ico_select' = ico_select
       /\ IsUpdateEnd =>
            /\ ed_ret.samples_changed =>
                  /\ ico_screen'.pipeline.id = ico_screen.pipeline.id + 1
                  /\ ico_screen'.pipeline.samples = state.samples.new
            /\ ~ed_ret.samples_changed => ico_screen'.pipeline = ico_screen.pipeline
            /\ ico_select.pipeline_valid
            /\ ico_select'.pipeline = ico_select.pipeline
            /\ ico_select'.pipeline.samples = 1
            /\ ico_select'.bundle.samples = 1
    ]_vars

\* C19 witness: an update found the samples changed to 4 and returned with
\* a second screen pipeline for 4 samples, the selection renderer still on
\* its first pipeline and a rebuilt bundle for 1 sample
C19_Witness ==
    /\ ed_ret.op = "update"
    /\ ed_ret.samples_changed
    /\ ico_screen.pipeline.id = 2
    /\ ico_screen.pipeline.samples = 4
    /\ ico_select.pipeline.id = 1
    /\ ico_select.bundle.id >= 2
    /\ ico_select.bundle.samples = 1

\* the events of the ThreadRunner::input calls made so far, oldest first
AppliedEvents == [i \in 1..Len(applied) |-> applied[i].event]

\* C20: every event the event loop pushed on the shared queue is applied to
\* the runner by the input thread exactly once and in the order pushed (the
\* events applied, then the one in the input thread's hand, then the ones
\* still queued are exactly the events pushed, in that order), each one
\* while the input thread holds the runner lock, and none is left behind:
\* whenever the input thread is parked on the condition variable and no
\* notification is on its way, every event pushed has been applied.  This
\* holds under every interleaving with the update thread and the event
\* loop's own use of the runner lock.
C20_EventHandOff ==
    /\ AppliedEvents \o event \o queue = pushed
    /\ \A i \in 1..Len(applied) : applied[i].runner_lock = "input"
    /\ (input_pc = "waiting" /\ loop_pc # "notify") => AppliedEvents = pushed

\* C20 witness: three events were pushed, the first was applied, and the
\* input thread now holds the second one, waiting for the runner lock that
\* the update thread has, with the third still queued
C20_Witness ==
    /\ Len(applied) = 1
    /\ event # << >>
    /\ Len(queue) = 1
    /\ input_pc = "lock"
    /\ runner_lock = "update"
    /\ C20_EventHandOff

\* the four size-dependent textures tex and a read-back buffer of the given
\* number of items are all the ones built for a target of the size sz
SizesAgree(sz, tex, items) ==
    /\ \A name \in DOMAIN tex : tex[name].size = sz
    /\ items = make_buffer(sz, 0).num_items

\* C21: atomic resize.  Whenever the render target and the runner are not
\* both locked by a resize in progress, the swap chain, the depth textures,
\* the MSAA target, the selection target and the selection read-back buffer
\* are all built for the same size, the one of sc_desc and Editor.size; and
\* every frame recorded used a swap-chain frame, attachments, a copy extent
\* and a read-back buffer of one and the same size, under every
\* interleaving of resize with render and update.
C21_AtomicResize ==
    /\ pc.main # "resize" =>
          /\ target.sc_desc = target.swap_chain
          /\ size = target.sc_desc
          /\ SizesAgree(target.sc_desc, textures, select_buffer.num_items)
    /\ encoder # << >> =>
          /\ SizesAgree(encoder[1].frame, encoder[1].attachments, encoder[1].buffer)
          /\ encoder[1].copy.width = encoder[1].frame[1]
          /\ encoder[1].copy.height = encoder[1].frame[2]

\* C21 witness: an update picked at index 65 of the 64 x 2 target, and a
\* resize to 65 x 1 has then returned
C21_Witness ==
    /\ ed_ret.op = "resize"
    /\ ed_ret.index = 65
    /\ size = <<65, 1>>
    /\ target.swap_chain = <<65, 1>>
    /\ textures.select.size = <<65, 1>>
    /\ select_buffer.num_items = 128

\* C22: frame error classes.  Of every frame that failed to present, a
\* lost surface led to a rebuild of the swap target at the size it had, an
\* out-of-memory error was skipped without anything done, any other error
\* was logged, and in every case the event loop goes on to the next frame.
C22_FrameErrorClasses ==
    /\ control_flow = "Poll"
    /\ \A i \in 1..Len(frames) :
          /\ frames[i].result = "Lost" =>
                frames[i].did = "resize" /\ frames[i].swap_chain = frames[i].size
          /\ frames[i].result = "OutOfMemory" => frames[i].did = "skip"
          /\ frames[i].result \in {"Timeout", "Outdated"} => frames[i].did = "log"

\* the counter start of the reference subdivision: one below the number of
\* vertices 10 * 4^s + 2 of the mesh of depth s, so that every midpoint gets
\* an index no vertex has yet
RefIndexCountStart(s) == (10 * (4 ^ s) + 2) - 1

\* subdivide() with the midpoint counter started at RefIndexCountStart
RefSubdivide(fs, s) ==
    LET acc == SubdivideLoop([index_count |-> RefIndexCountStart(s), indices |-> << >>,
                              j |-> 0, edges |-> << >>, vertices |-> << >>],
                             fs, 1, Len(fs))
    IN  ResolveSiblings(acc.vertices, acc.edges)

\* the reference mesh of depth d
RECURSIVE RefDivs(_)
RefDivs(d) == IF d = 0 THEN BaseMesh ELSE RefSubdivide(RefDivs(d - 1), d - 1)

\* the directed edge k of a face: (i0, i1), (i1, i2), (i2, i0)
FaceEdge(f, k) == << f.indices[k], f.indices[(k % 3) + 1] >>

\* face g has the directed edge e
HasEdge(g, e) == \E k \in 1..3 : FaceEdge(g, k) = e

\* in the mesh fs every vertex has an index of its own (there are as many
\* indices as a sphere of Len(fs) triangles has vertices) and the sibling on
\* each edge is a face that has the same two vertices in the opposite
\* direction
TrueTopology(fs) ==
    /\ Cardinality(Corners(fs)) = (Len(fs) \div 2) + 2
    /\ \A p \in 1..Len(fs) : \A k \in 1..3 :
          LET s == fs[p].siblings[k]
              e == FaceEdge(fs[p], k)
          IN  /\ s \in 1..Len(fs)
              /\ s # p
              /\ HasEdge(fs[s], << e[2], e[1] >>)

\* C23: intra-parent adjacency.  After subdivide(), for every parent n the
\* centre child 4n has exactly the corner children 4n-3, 4n-2 and 4n-1 as
\* its three siblings, and each corner child names 4n in one slot and faces
\* of other parents in its two other slots, at every subdivision level.
C23_IntraParentAdjacency ==
    sub >= 1 =>
       \A n \in 1..(Len(faces) \div 4) :
          /\ { faces[4 * n].siblings[e] : e \in 1..3 } = { 4 * n - 3, 4 * n - 2, 4 * n - 1 }
          /\ \A k \in 1..3 :
                LET s == faces[4 * n - k].siblings
                IN  /\ SlotCount(s, 4 * n) = 1
                    /\ \A e \in 1..3 :
                          s[e] # 4 * n =>
                             /\ s[e] \in 1..Len(faces)
                             /\ ((s[e] - 1) \div 4) + 1 # n

\* C23 witness: the second subdivide() has returned and the children 5, 6
\* and 7 of parent 2 surround the centre child 8
C23_Witness ==
    /\ sub = 2
    /\ ret.op = "subdivide"
    /\ { faces[8].siblings[e] : e \in 1..3 } = {5, 6, 7}
    /\ \E e \in 1..3 : faces[5].siblings[e] > 8

C25_HighlightAcrossRebuilds ==
    (ed_ret.op = "update" /\ ~ed_ret.panicked /\ face(faces, selected) # << >>) =>
        << ico_uniform.s1, ico_uniform.s2, ico_uniform.s3 >>
            = face(faces, selected)[1].siblings

\* C26: no buffer overrun.  After any sequence of ItemBuffer::update calls
\* the recorded item count is at most the number of items the allocation
\* held was created for, so the data of every write_buffer fits, also when
\* in-place shrinking updates are followed by growth.
C26_NoBufferOverrun ==
    /\ num_items <= buffer.size
    /\ calls[Len(calls)] <= buffer.size

\* C26 witness: a buffer built for 3 items was shrunk in place to 2 and to
\* 1 and then grew to 2, which replaced the allocation by one for 2 items
C26_Witness ==
    /\ calls = << 3, 2, 1, 2 >>
    /\ buffer.id = 1
    /\ buffer.size = 2
    /\ num_items = 2

\* the threads spawned by run next to the event loop it runs itself
Threads == {"main", "input", "update"}

\* the thread that holds a lock, "none" when it is free
Holder(lock) ==
    IF lock = "queue" THEN queue_lock
    ELSE IF lock = "target" THEN target_lock
    ELSE runner_lock

\* the lock a thread is about to take at its position, "none" when its next
\* step takes no lock; the update thread asks for the runner lock every time
\* round its loop
Wants(t) ==
    IF t = "main"
    THEN IF loop_pc = "push" THEN "queue"
         ELSE IF loop_pc \in {"frame", "resize", "size"} THEN "target"
         ELSE IF loop_pc \in {"update", "update2", "target", "resize_target", "ui"}
              THEN "runner"
         ELSE "none"
    ELSE IF t = "input"
    THEN IF input_pc \in {"start", "woken"} THEN "queue"
         ELSE IF input_pc = "lock" THEN "runner"
         ELSE "none"
    ELSE IF runner_lock = "update" THEN "none" ELSE "runner"

\* a thread waits for a lock somebody holds
Blocked(t) == Wants(t) # "none" /\ Holder(Wants(t)) # "none"

\* the locks a thread holds
Held(t) == {lock \in {"queue", "target", "runner"} : Holder(lock) = t}

\* C27: deadlock freedom.  In no reachable state is there a set of threads
\* each waiting for a lock held by a thread of the set (a thread waiting for
\* a lock it holds itself included), over the event-queue lock, the
\* render-target lock and the runner lock; and the locks nest as stated:
\* the event loop asks for the runner lock holding at most the target lock
\* and holds the runner lock under the target lock in render and resize,
\* the input thread asks for and holds the runner lock under the queue
\* lock, the update thread holds the runner lock only, and nobody asks for
\* the queue lock or the target lock while holding another lock.
C27_DeadlockFreedom ==
    /\ ~ \E S \in (SUBSET Threads) \ {{}} :
            \A t \in S : Blocked(t) /\ Holder(Wants(t)) \in S
    /\ \A t \in Threads : Wants(t) \in {"queue", "target"} => Held(t) = {}
    /\ Wants("main") = "runner" => Held("main") \subseteq {"target"}
    /\ loop_pc \in {"render", "resizing", "ui_render"}
          => Held("main") = {"target", "runner"}
    /\ Wants("input") = "runner" => Held("input") = {"queue"}
    /\ runner_lock = "input" => Held("input") = {"queue", "runner"}
    /\ Held("update") \subseteq {"runner"}

\* C27 witness: all three threads are at the runner lock: the update thread
\* holds it, the event loop waits for it holding the target lock in render
\* or resize, and the input thread waits for it holding the queue lock, an
\* event in its hand
C27_Witness ==
    /\ runner_lock = "update"
    /\ loop_pc = "target" /\ target_lock = "main"
    /\ input_pc = "lock" /\ queue_lock = "input" /\ event # << >>
    /\ Blocked("main") /\ Blocked("input")

\* the steps of the event loop inside a handler, once the closure was
\* called with an event
MainSteps ==
    \/ \E kind \in EventKinds : Push(kind)
    \/ Notify
    \/ MainTargetLock
    \/ MainRunnerLock
    \/ MainRunnerUnlock
    \/ MainTargetUnlock

\* the steps of the input thread
InputSteps ==
    \/ InputQueueLock
    \/ InputPop
    \/ InputRunnerLock
    \/ InputApply
    \/ InputRunnerUnlock
    \/ InputWait
    \/ InputWake

\* the three threads under fair scheduling.  Each thread is sequential, so
\* fairness is stated per thread: a running thread takes its next step, and
\* a thread asking for a parking_lot mutex that is free again and again
\* gets it in the end (the mutex is handed over to a waiting thread from
\* time to time).  Which events the event loop is called with, and whether
\* the update thread goes round its loop again, stays open; the update
\* thread returns from an update it started.
SpecEvtFair ==
    /\ InitEvt
    /\ [][NextEvt]_vars
    /\ SF_vars(MainSteps)
    /\ SF_vars(InputSteps)
    /\ WF_vars(UpdateUnlock)

\* C28: no lost wake-up.  Under fair scheduling every event pushed on the
\* shared queue is eventually passed to ThreadRunner::input: whenever some
\* pushed event has not been applied yet, a state follows in which all the
\* events pushed by then have been applied (the events applied are always a
\* prefix of the events pushed, so this delivers each of them); and the
\* input thread parked in the condition-variable wait with a non-empty
\* queue eventually leaves the wait, wherever the push and the notify fall
\* relative to its drain loop.
C28_NoLostWakeup ==
    /\ (Len(applied) < Len(pushed)) ~> (Len(applied) = Len(pushed))
    /\ (input_pc = "waiting" /\ queue # << >>) ~> (input_pc # "waiting")

\* C28 witness: the input thread is parked in the wait, an event has been
\* pushed behind its back and the notify has not happened yet
C28_Witness ==
    /\ input_pc = "waiting"
    /\ queue # << >>
    /\ loop_pc = "notify"
    /\ Len(applied) < Len(pushed)

\* C29: sample-count agreement at render.  In every frame Editor::render
\* records, the sample count implied by the samples setting it read (the
\* setting when the MSAA attachment is used, 1 when it is not) is the one
\* the screen renderer's bundle and pipeline were last built with and the
\* one of the MSAA and the sampled depth texture it attaches; a samples
\* change made by the UI is not seen by a render before Editor::update
\* has applied it.
C29_SampleAgreementAtRender ==
    (encoder # << >> /\ ed_ret.op = "render") =>
        LET e == encoder[1]
            implied == IF e.msaa THEN e.samples ELSE 1
        IN  /\ e.screen.samples = implied
            /\ ico_screen.pipeline.samples = implied
            /\ e.attachments.msaa.samples = implied
            /\ e.attachments.sampled_depth_texture.samples = implied

(* --------------------------- the pick read ---------------------------- *)
\* the byte range ItemBuffer<u32>::mapped_read slices out of the buffer and
\* maps for the index offset
mapped_read_range(offset) ==
    [lo |-> (offset \div 2) * 4, hi |-> ((offset \div 2) * 4) + 8]

\* Texture::make_buffer of the older program: the number of items, one per
\* texel, rows not padded
main_make_buffer(sz) == sz[1] * sz[2]

\* the byte index the older Editor::update reads the selection at
main_pick_index(sz, mouse) ==
    LET index == 4 * ((sz[1] * mouse[2]) + mouse[1])
    IN  IF index > 4 * sz[1] * sz[2] THEN (4 * sz[1] * sz[2]) - 4 ELSE index

\* a range lo..hi of bytes lies inside a slice of len bytes; slicing
\* panics otherwise
InBounds(lo, hi, len) == 0 <= lo /\ lo <= hi /\ hi <= len

\* the older Editor::update at the selection read: the whole buffer is
\* mapped and data[index..index + 4] is read; the buffer has one word per
\* texel of the target
main_EditorUpdate ==
    /\ program = "root"
    /\ pc.main = "idle"
    /\ pc.update = "idle"
    /\ ~ed_ret.panicked
    /\ LET index == main_pick_index(size, mouse_raw)
           ok == InBounds(index, index + 4, U32_SIZE * main_make_buffer(size))
       IN  ed_ret' = EdRet("main_read", FALSE, FALSE, index,
                           IF ok THEN select_buffer.words[(index \div U32_SIZE) + 1]
                                 ELSE ed_ret.new,
                           ~ok)
    /\ UNCHANGED <<evtVars, loopVars, gfxVars>>
    /\ UNCHANGED <<icoVars, bufVars, renVars, state, size, mouse_raw, selected,
                   ico_uniform, select_buffer, encoder, pc>>

\* the window sizes tried for the pick read: the smallest one, a small one,
\* one with rows of exactly and one with rows just over the copy alignment
ReadSizes == {<<1, 1>>, <<2, 2>>, <<64, 2>>, <<65, 1>>}

\* the cursor positions a window of the size sz reports, its right and
\* bottom border included
WindowPositions(sz) == (0..sz[1]) \X (0..sz[2])

\* the positions tried: origin, last texel and border, in both directions
BorderPositions(sz) == {0, sz[1] - 1, sz[1]} \X {0, sz[2] - 1, sz[2]}

\* either program with a window of any of the sizes, the cursor moving,
\* the window resized, and the update reading the selection
InitRead ==
    /\ \E sz \in ReadSizes, fill \in Fills : EditorNew(sz, fill)
    /\ InitQueue
    /\ \E p \in Programs : InitLoop(p)

NextRead ==
    \/ \E position \in BorderPositions(size) : CursorMoved(position)
    \/ \E sz \in ReadSizes : ResizeTarget(sz)
    \/ \E fill \in Fills : Resize(fill)
    \/ program = "engine" /\ EditorUpdateBegin
    \/ EditorUpdateEnd
    \/ main_EditorUpdate

SpecRead == InitRead /\ [][NextRead]_vars

\* C30: the pick read stays in bounds.  For every target size and every
\* cursor position the window reports (x up to the width, y up to the
\* height), the byte range the update reads from the mapped selection
\* buffer lies inside the buffer: the eight bytes mapped_read slices in the
\* engine's editor, the four bytes at the clamped index in the older
\* editor, which panics otherwise.
C30_PickReadInBounds ==
    mouse_raw \in WindowPositions(size) =>
        /\ ed_ret.op = "mapped_read" =>
              InBounds(mapped_read_range(ed_ret.index).lo,
                       mapped_read_range(ed_ret.index).hi,
                       U32_SIZE * select_buffer.num_items)
        /\ ed_ret.op = "main_read" =>
              /\ InBounds(ed_ret.index, ed_ret.index + 4,
                          U32_SIZE * main_make_buffer(size))
              /\ ~ed_ret.panicked

=============================================================================
